---- MODULE Spec2Model ----
(***************************************************************************)
(* A model of app.py, the DIA proteomics Streamlit application.            *)
(*                                                                         *)
(* Two specifications share the module.                                    *)
(*   PureSpec  applies the helper functions (detect_column_types,          *)
(*             auto_annotate_columns, clean_intensity_data and the data    *)
(*             preparation of the three QC plots) to every data frame      *)
(*             pd.read_csv can return within the bounds.                   *)
(*   Spec      is the Streamlit session: st.session_state, the file        *)
(*             uploader, and one action per user event, each action being  *)
(*             one whole run of the script (Module 1, then Module 2).      *)
(*                                                                         *)
(* A data frame is [columns |-> sequence of names, rows |-> sequence of    *)
(* functions from column name to cell].  A cell is NaN, Num(n) or Str(s):  *)
(* read_csv gives a column whose cells are all numbers a numeric dtype,    *)
(* and keeps every cell of any other column as text (object dtype).        *)
(* A mean is kept exact as the pair <<sum, count>>.                        *)
(*                                                                         *)
(* The plotting functions are modelled up to the data handed to plotly or  *)
(* to PCA.fit_transform.  st.cache_data memoises them on their arguments   *)
(* and changes no result, so it is left out.                               *)
(***************************************************************************)
EXTENDS Integers, Sequences, FiniteSets, TLC

VARIABLES
    uploaded_file,       \* the st.file_uploader widget's value
    uploaded_data,       \* st.session_state.uploaded_data
    column_annotations,  \* st.session_state.column_annotations
    run,                 \* what the last script run did (observation only)
    pc,                  \* PureSpec: the stage reached
    df,                  \* PureSpec: the data frame under test
    annotations,         \* PureSpec: the annotation map handed to the QC plots
    out                  \* PureSpec: the result of the stage

vars == <<uploaded_file, uploaded_data, column_annotations, run, pc, df, annotations, out>>

sessionVars == <<uploaded_file, uploaded_data, column_annotations, run>>

pureVars == <<pc, df, annotations, out>>

-----------------------------------------------------------------------------
(* Bounds *)

\* PureSpec: a data frame has at most MaxCells cells (rows times columns).
MaxCells == 5

\* Spec: the number of distinct sample columns the uploaded files draw from.
MaxSamples == 2

\* Column names, in header order.
ColumnNames == <<"a", "b", "c", "d", "e", "f">>

\* The text of a cell of an uploaded file: empty, numbers, and a word.
RawCells == {"", "0", "1", "5", "10", "x"}

\* What the user may type into a "Rename" box.
RenameChoices == {"X"}

-----------------------------------------------------------------------------
(* Values *)

Range(s) == {s[i] : i \in 1..Len(s)}

NaN == [k |-> "nan"]

Num(n) == [k |-> "num", n |-> n]

Str(s) == [k |-> "str", s |-> s]

Digits == <<"0", "1", "2", "3", "4", "5", "6", "7", "8", "9">>

RECURSIVE IntToStr(_)
\* str(n) for n >= 0, as the f-strings of auto_annotate_columns format it
IntToStr(n) ==
    IF n < 10 THEN Digits[n + 1]
    ELSE IntToStr(n \div 10) \o Digits[(n % 10) + 1]

\* The texts of RawCells that are numbers, with their values.
IsNumericText(s) == s \in {"0", "1", "5", "10"}

ParseNumber(s) ==
    CASE s = "0" -> 0
      [] s = "1" -> 1
      [] s = "5" -> 5
      [] s = "10" -> 10

\* pd.read_csv: an empty field is NaN; a column whose other fields are all
\* numbers is parsed to numbers, any other column keeps its fields as text.
read_csv(header, rawRows) ==
    LET numericColumn(c) ==
            \A r \in 1..Len(rawRows) : rawRows[r][c] = "" \/ IsNumericText(rawRows[r][c])
        cell(r, c) ==
            IF rawRows[r][c] = "" THEN NaN
            ELSE IF numericColumn(c) THEN Num(ParseNumber(rawRows[r][c]))
            ELSE Str(rawRows[r][c])
    IN  [columns |-> header,
         rows |-> [r \in 1..Len(rawRows) |-> [c \in Range(header) |-> cell(r, c)]]]

\* pd.to_numeric(cell, errors='coerce')
to_numeric(cell) ==
    CASE cell.k = "num" -> cell
      [] cell.k = "nan" -> NaN
      [] cell.k = "str" -> IF IsNumericText(cell.s) THEN Num(ParseNumber(cell.s)) ELSE NaN

isna(cell) == cell.k = "nan"

-----------------------------------------------------------------------------
(* Helper functions - data processing *)

\* numeric_values.isna().any(): the slip of testing for one failing cell
AllFailCoercionAny(frame, col) ==
    \E r \in 1..Len(frame.rows) : isna(to_numeric(frame.rows[r][col]))

\* numeric_values.isna().all(): every cell of the column fails coercion
AllFailCoercion(frame, col) ==
    \A r \in 1..Len(frame.rows) : isna(to_numeric(frame.rows[r][col]))

\* detect_column_types without its else: every column is appended to numerical_cols
detect_column_types_dup(frame) ==
    [metadata_cols |-> SelectSeq(frame.columns, LAMBDA col : AllFailCoercion(frame, col)),
     numerical_cols |-> frame.columns]

detect_column_types(frame) ==
    [metadata_cols |-> SelectSeq(frame.columns, LAMBDA col : AllFailCoercion(frame, col)),
     numerical_cols |-> SelectSeq(frame.columns, LAMBDA col : ~AllFailCoercion(frame, col))]

\* enumerate(): the 0-based position of the last occurrence of col
IndexOf(cols, col) ==
    (CHOOSE i \in 1..Len(cols) : cols[i] = col /\ \A j \in (i + 1)..Len(cols) : cols[j] # col) - 1

\* auto_annotate_columns with the midpoint rounded up
auto_annotate_columns_ceil(numerical_cols) ==
    LET midpoint == (Len(numerical_cols) + 1) \div 2
    IN  [col \in Range(numerical_cols) |->
            LET idx == IndexOf(numerical_cols, col)
            IN  IF idx < midpoint
                THEN [condition |-> "Control", renamed |-> "C" \o IntToStr(idx + 1)]
                ELSE [condition |-> "Treatment", renamed |-> "T" \o IntToStr(idx - midpoint + 1)]]

auto_annotate_columns(numerical_cols) ==
    LET midpoint == Len(numerical_cols) \div 2
    IN  [col \in Range(numerical_cols) |->
            LET idx == IndexOf(numerical_cols, col)
            IN  IF idx < midpoint
                THEN [condition |-> "Control", renamed |-> "C" \o IntToStr(idx + 1)]
                ELSE [condition |-> "Treatment", renamed |-> "T" \o IntToStr(idx - midpoint + 1)]]

\* DataFrame.replace([0, 1], np.nan): a cell equal to the number 0 or 1
replace01(cell) == IF cell.k = "num" /\ cell.n \in {0, 1} THEN NaN ELSE cell

clean_intensity_data(frame, numerical_cols) ==
    [columns |-> numerical_cols,
     rows |-> [r \in 1..Len(frame.rows) |->
                  [c \in Range(numerical_cols) |-> replace01(frame.rows[r][c])]]]

-----------------------------------------------------------------------------
(* Exact arithmetic: a fraction is <<numerator, denominator>>, NaN is <<0, 0>> *)

NaNFrac == <<0, 0>>

FracIsNaN(q) == q[2] = 0

FracEq(p, q) ==
    IF FracIsNaN(p) \/ FracIsNaN(q) THEN FracIsNaN(p) /\ FracIsNaN(q)
    ELSE p[1] * q[2] = q[1] * p[2]

RECURSIVE SumSeq(_)
SumSeq(s) == IF s = <<>> THEN 0 ELSE Head(s) + SumSeq(Tail(s))

RECURSIVE Flatten(_)
Flatten(ss) == IF ss = <<>> THEN <<>> ELSE Head(ss) \o Flatten(Tail(ss))

\* Series.mean() of a sequence of numbers
MeanOf(ns) == IF ns = <<>> THEN NaNFrac ELSE <<SumSeq(ns), Len(ns)>>

\* (Series.std() / Series.mean() * 100) squared, for Len(ns) > 1 and a mean
\* that is not 0; std is the sample standard deviation (ddof = 1).
CvPercentSquared(ns) ==
    LET n == Len(ns)
        sum == SumSeq(ns)
        sumsq == SumSeq([i \in 1..n |-> ns[i] * ns[i]])
    IN  <<10000 * n * (n * sumsq - sum * sum), (n - 1) * sum * sum>>

-----------------------------------------------------------------------------
(* Plotting functions: the data each plot is drawn from *)

\* df_clean[col].notna().sum() for each sample column
plot_unique_proteins(frame, numerical_cols) ==
    LET df_clean == clean_intensity_data(frame, numerical_cols)
    IN  [i \in 1..Len(numerical_cols) |->
            Cardinality({r \in 1..Len(df_clean.rows) :
                            ~isna(df_clean.rows[r][numerical_cols[i]])})]

\* row[cols].dropna()
RowValues(df_clean, r, cols) ==
    SelectSeq([i \in 1..Len(cols) |-> df_clean.rows[r][cols[i]]], LAMBDA cell : ~isna(cell))

\* One condition's CV entry of one row: none unless more than one value is left;
\* std() and mean() raise TypeError on text.
CvEntry(condition, vals) ==
    IF Len(vals) > 1
    THEN IF \E i \in 1..Len(vals) : vals[i].k = "str"
         THEN <<[Condition |-> "TypeError"]>>
         ELSE LET ns == [i \in 1..Len(vals) |-> vals[i].n]
              IN  <<[Condition |-> condition, n |-> Len(ns), mean |-> MeanOf(ns),
                     cv2 |-> CvPercentSquared(ns)]>>
    ELSE <<>>

plot_cv_analysis(frame, numerical_cols, annots) ==
    IF \E col \in Range(numerical_cols) : col \notin DOMAIN annots
    THEN [status |-> "KeyError"]
    ELSE
    LET df_clean == clean_intensity_data(frame, numerical_cols)
        control_cols == SelectSeq(numerical_cols, LAMBDA col : annots[col].condition = "Control")
        treatment_cols == SelectSeq(numerical_cols, LAMBDA col : annots[col].condition = "Treatment")
        cv_data == Flatten([r \in 1..Len(df_clean.rows) |->
                       CvEntry("Control", RowValues(df_clean, r, control_cols))
                       \o CvEntry("Treatment", RowValues(df_clean, r, treatment_cols))])
    IN  IF \E i \in 1..Len(cv_data) : cv_data[i].Condition = "TypeError"
        THEN [status |-> "TypeError"]
        ELSE [status |-> "ok", control_cols |-> control_cols,
              treatment_cols |-> treatment_cols, cv_data |-> cv_data]

\* The rows dropna(thresh=len(numerical_cols) * 0.5) keeps: those with at least
\* thresh cells that are not NaN.
KeptRows(df_clean, numerical_cols) ==
    SelectSeq([r \in 1..Len(df_clean.rows) |-> r],
              LAMBDA r : 2 * Len(RowValues(df_clean, r, numerical_cols)) >= Len(numerical_cols))

\* The value fillna(df_pca.mean()) puts into a missing cell of column col
ColumnMean(df_clean, kept, col) ==
    LET present == SelectSeq(kept, LAMBDA r : ~isna(df_clean.rows[r][col]))
    IN  MeanOf([i \in 1..Len(present) |-> df_clean.rows[present[i]][col].n])

\* plot_pca up to data_transposed, the input of PCA.fit_transform: for each
\* sample column its vector over the kept features.  mean() raises TypeError
\* on a column that holds text.
plot_pca(frame, numerical_cols) ==
    LET df_clean == clean_intensity_data(frame, numerical_cols)
        kept == KeptRows(df_clean, numerical_cols)
    IN  IF \E i \in 1..Len(kept) : \E col \in Range(numerical_cols) :
              df_clean.rows[kept[i]][col].k = "str"
        THEN [status |-> "TypeError", index |-> kept]
        ELSE [status |-> "ok", index |-> kept,
              data_transposed |->
                 [col \in Range(numerical_cols) |->
                     [i \in 1..Len(kept) |->
                         IF isna(df_clean.rows[kept[i]][col])
                         THEN ColumnMean(df_clean, kept, col)
                         ELSE <<df_clean.rows[kept[i]][col].n, 1>>]]]

\* plot_intensity_distribution up to the values whose log10 is plotted: for
\* each sample column its display name, its condition and values[values > 0].
\* The comparison raises TypeError on text.
plot_intensity_distribution(frame, numerical_cols, annots) ==
    IF \E col \in Range(numerical_cols) : col \notin DOMAIN annots
    THEN [status |-> "KeyError"]
    ELSE
    LET df_clean == clean_intensity_data(frame, numerical_cols)
        values(col) == SelectSeq([r \in 1..Len(df_clean.rows) |-> df_clean.rows[r][col]],
                                 LAMBDA cell : ~isna(cell))
    IN  IF \E col \in Range(numerical_cols) : \E i \in 1..Len(values(col)) : values(col)[i].k = "str"
        THEN [status |-> "TypeError"]
        ELSE [status |-> "ok",
              data_list |-> [i \in 1..Len(numerical_cols) |->
                  [Sample |-> annots[numerical_cols[i]].renamed,
                   Condition |-> annots[numerical_cols[i]].condition,
                   values |-> SelectSeq([j \in 1..Len(values(numerical_cols[i])) |->
                                            values(numerical_cols[i])[j].n],
                                        LAMBDA n : n > 0)]]]

-----------------------------------------------------------------------------
(* The session: st.session_state and the script *)

None == [none |-> TRUE]

NoFile == [kind |-> "none"]

\* A file pd.read_csv cannot parse.
BadFile == [kind |-> "bad"]

EmptyAnnotations == [col \in {} |-> [condition |-> "Control", renamed |-> ""]]

NoEdit == [kind |-> "none", col |-> "", value |-> ""]

\* The sample columns the uploaded files draw from.
SampleNames == SubSeq(ColumnNames, 1, MaxSamples)

\* The files a user uploads: an identifier column of text followed by any of
\* the sample columns in header order, two features each; or an unreadable file.
GoodFiles ==
    {[kind |-> "csv",
      header |-> <<"id">> \o SelectSeq(SampleNames, LAMBDA c : c \in S),
      raw |-> <<[c \in {"id"} \cup S |-> IF c = "id" THEN "x" ELSE "5"],
                [c \in {"id"} \cup S |-> IF c = "id" THEN "x" ELSE "10"]>>] :
        S \in SUBSET Range(SampleNames)}

Files == GoodFiles \cup {BadFile}

\* The guard without its first conjunct: the default is applied on every run
needs_auto_annotation_always(annots, numerical_cols) == Len(numerical_cols) > 0

\* `not st.session_state.column_annotations and len(numerical_cols) > 0`

needs_auto_annotation(annots, numerical_cols) ==
    DOMAIN annots = {} /\ Len(numerical_cols) > 0

\* The annotation table of Module 1: the copy of the stored map, a
\* Control/own-name entry for a column missing from it, and what the two
\* widgets of each numeric column return: the entry's value unless the user's
\* event of this run edited that widget.
annotation_edit_loop(stored, numerical_cols, edit) ==
    LET start(col) == IF col \in DOMAIN stored THEN stored[col]
                      ELSE [condition |-> "Control", renamed |-> col]
        new_name(col) == IF edit.kind = "rename" /\ edit.col = col THEN edit.value
                         ELSE start(col).renamed
        condition(col) == IF edit.kind = "condition" /\ edit.col = col THEN edit.value
                          ELSE start(col).condition
    IN  [col \in DOMAIN stored \cup Range(numerical_cols) |->
            IF col \in Range(numerical_cols)
            THEN [condition |-> condition(col), renamed |-> new_name(col)]
            ELSE stored[col]]

CountCondition(annots, condition) ==
    Cardinality({col \in DOMAIN annots : annots[col].condition = condition})

\* Module 1.  The result: the two session values it leaves, and what it did.
Module1(file, edit) ==
    IF file.kind = "none"
    THEN [uploaded_data |-> uploaded_data, column_annotations |-> column_annotations,
          error |-> FALSE, classified |-> FALSE, auto_annotated |-> FALSE]
    ELSE IF file.kind = "bad"
    THEN [uploaded_data |-> uploaded_data, column_annotations |-> column_annotations,
          error |-> TRUE, classified |-> FALSE, auto_annotated |-> FALSE]
    ELSE
    LET frame == read_csv(file.header, file.raw)
        numerical_cols == detect_column_types(frame).numerical_cols
        auto == needs_auto_annotation(column_annotations, numerical_cols)
        stored == IF auto THEN auto_annotate_columns(numerical_cols) ELSE column_annotations
        annots == annotation_edit_loop(stored, numerical_cols, edit)
    IN  [uploaded_data |-> frame, column_annotations |-> annots,
         error |-> FALSE, classified |-> TRUE, auto_annotated |-> auto,
         n_control |-> CountCondition(annots, "Control"),
         n_treatment |-> CountCondition(annots, "Treatment")]

\* Module 2, on the session values Module 1 left.
Module2(data, annots) ==
    IF data # None /\ DOMAIN annots # {}
    THEN LET numerical_cols == detect_column_types(data).numerical_cols
         IN  [ran |-> TRUE,
              numerical_cols |-> numerical_cols,
              fig1 |-> plot_unique_proteins(data, numerical_cols),
              fig2 |-> plot_intensity_distribution(data, numerical_cols, annots),
              fig3 |-> plot_cv_analysis(data, numerical_cols, annots),
              fig4 |-> plot_pca(data, numerical_cols)]
    ELSE [ran |-> FALSE]

\* One run of the script with `file` in the uploader and the user's edit.
ScriptRun(file, edit, event) ==
    LET m1 == Module1(file, edit)
    IN  /\ uploaded_data' = m1.uploaded_data
        /\ column_annotations' = m1.column_annotations
        /\ run' = [event |-> event,
                   edited |-> edit.col,
                   error |-> m1.error,
                   classified |-> m1.classified,
                   auto_annotated |-> m1.auto_annotated,
                   replaced |-> (m1.classified /\ uploaded_data # None
                                 /\ m1.uploaded_data # uploaded_data),
                   qc |-> Module2(m1.uploaded_data, m1.column_annotations)]

\* The widgets of column col were drawn by the last run.
WidgetsShown(col) ==
    /\ uploaded_file.kind = "csv"
    /\ col \in Range(detect_column_types(uploaded_data).numerical_cols)

(* User events; each triggers one run of the script. *)

Upload(file) ==
    /\ file # uploaded_file
    /\ uploaded_file' = file
    /\ ScriptRun(file, NoEdit, "upload")
    /\ UNCHANGED pureVars

RemoveFile ==
    /\ uploaded_file # NoFile
    /\ uploaded_file' = NoFile
    /\ ScriptRun(NoFile, NoEdit, "remove")
    /\ UNCHANGED pureVars

Rename(col, name) ==
    /\ WidgetsShown(col)
    /\ name # column_annotations[col].renamed
    /\ ScriptRun(uploaded_file, [kind |-> "rename", col |-> col, value |-> name], "rename")
    /\ UNCHANGED <<uploaded_file, pureVars>>

SetCondition(col, condition) ==
    /\ WidgetsShown(col)
    /\ condition # column_annotations[col].condition
    /\ ScriptRun(uploaded_file, [kind |-> "condition", col |-> col, value |-> condition],
                 "condition")
    /\ UNCHANGED <<uploaded_file, pureVars>>

\* Any other widget event, such as moving the CV threshold slider.
Rerun ==
    /\ ScriptRun(uploaded_file, NoEdit, "rerun")
    /\ UNCHANGED <<uploaded_file, pureVars>>

IdlePure ==
    /\ pc = "idle"
    /\ df = [columns |-> <<>>, rows |-> <<>>]
    /\ annotations = EmptyAnnotations
    /\ out = [stage |-> "idle"]

\* The session after the first run of the script: nothing uploaded.
InitSession ==
    /\ uploaded_file = NoFile
    /\ uploaded_data = None
    /\ column_annotations = EmptyAnnotations
    /\ run = [event |-> "start", edited |-> "", error |-> FALSE, classified |-> FALSE,
              auto_annotated |-> FALSE, replaced |-> FALSE, qc |-> [ran |-> FALSE]]

Init == InitSession /\ IdlePure

Next ==
    \/ \E file \in Files : Upload(file)
    \/ RemoveFile
    \/ \E col \in Range(SampleNames) : \E name \in RenameChoices : Rename(col, name)
    \/ \E col \in Range(SampleNames) : \E condition \in {"Control", "Treatment"} :
          SetCondition(col, condition)
    \/ Rerun

Spec == Init /\ [][Next]_vars

-----------------------------------------------------------------------------
(* PureSpec: the helper functions on every bounded data frame *)

\* The data frames read_csv returns for files of at most MaxCells cells.
InitPure ==
    \E ncols \in 1..MaxCells : \E nrows \in 0..(MaxCells \div ncols) :
        \E raw \in [1..nrows -> [Range(SubSeq(ColumnNames, 1, ncols)) -> RawCells]] :
            /\ pc = "loaded"
            /\ df = read_csv(SubSeq(ColumnNames, 1, ncols), raw)
            /\ annotations = EmptyAnnotations
            /\ out = [stage |-> "loaded"]

Classify ==
    /\ pc = "loaded"
    /\ pc' = "classified"
    /\ out' = detect_column_types(df)
    /\ UNCHANGED <<df, annotations, sessionVars>>

AutoAnnotate ==
    /\ pc = "classified"
    /\ pc' = "annotated"
    /\ out' = [numerical_cols |-> out.numerical_cols,
               annotations |-> auto_annotate_columns(out.numerical_cols)]
    /\ UNCHANGED <<df, annotations, sessionVars>>

UniqueProteins ==
    /\ pc = "loaded"
    /\ pc' = "counted"
    /\ out' = [numerical_cols |-> detect_column_types(df).numerical_cols,
               counts |-> plot_unique_proteins(df, detect_column_types(df).numerical_cols)]
    /\ UNCHANGED <<df, annotations, sessionVars>>

\* The user assigns the first k numeric columns to Control, the rest to Treatment.
Assign(k) ==
    /\ pc = "loaded"
    /\ k <= Len(detect_column_types(df).numerical_cols)
    /\ pc' = "assigned"
    /\ annotations' =
          LET numerical_cols == detect_column_types(df).numerical_cols
          IN  annotation_edit_loop(
                 [col \in Range(numerical_cols) |->
                     [condition |-> IF IndexOf(numerical_cols, col) < k
                                    THEN "Control" ELSE "Treatment",
                      renamed |-> col]],
                 numerical_cols, NoEdit)
    /\ UNCHANGED <<df, out, sessionVars>>

CvAnalysis ==
    /\ pc = "assigned"
    /\ pc' = "cv"
    /\ out' = plot_cv_analysis(df, detect_column_types(df).numerical_cols, annotations)
    /\ UNCHANGED <<df, annotations, sessionVars>>

Pca ==
    /\ pc = "loaded"
    /\ pc' = "pca"
    /\ out' = [numerical_cols |-> detect_column_types(df).numerical_cols,
               pca |-> plot_pca(df, detect_column_types(df).numerical_cols)]
    /\ UNCHANGED <<df, annotations, sessionVars>>

PureInit == InitSession /\ InitPure

PureNext ==
    \/ Classify
    \/ AutoAnnotate
    \/ UniqueProteins
    \/ \E k \in 0..MaxCells : Assign(k)
    \/ CvAnalysis
    \/ Pca

PureSpec == PureInit /\ [][PureNext]_vars

-----------------------------------------------------------------------------
(* Claims *)

IsInColumnOrder(cols, columns) ==
    cols = SelectSeq(columns, LAMBDA c : c \in Range(cols))

\* C1: detect_column_types puts every column of the matrix in exactly one of
\* metadata_cols and numerical_cols (disjoint, together all the columns), each
\* list in the original column order.
C1_ColumnsPartitioned ==
    pc = "classified" =>
        /\ Range(out.metadata_cols) \cap Range(out.numerical_cols) = {}
        /\ Range(out.metadata_cols) \cup Range(out.numerical_cols) = Range(df.columns)
        /\ Len(out.metadata_cols) + Len(out.numerical_cols) = Len(df.columns)
        /\ IsInColumnOrder(out.metadata_cols, df.columns)
        /\ IsInColumnOrder(out.numerical_cols, df.columns)

\* A matrix with an all-missing column and a column of each class was classified.
C1_Witness ==
    /\ pc = "classified"
    /\ Len(df.rows) > 0
    /\ out.metadata_cols # <<>>
    /\ out.numerical_cols # <<>>
    /\ \E col \in Range(df.columns) : \A r \in 1..Len(df.rows) : df.rows[r][col] = NaN

\* A cell that is missing, or text that is not a number.
CellFailsCoercion(cell) ==
    \/ cell.k = "nan"
    \/ cell.k = "str" /\ cell.s \notin {"0", "1", "5", "10"}

\* C2: a column is Metadata if and only if every cell of it fails numeric
\* coercion; a column with at least one cell that coerces is Numeric.
C2_MetadataIffAllCellsFail ==
    pc = "classified" =>
        \A col \in Range(df.columns) :
            /\ col \in Range(out.metadata_cols)
                  <=> \A r \in 1..Len(df.rows) : CellFailsCoercion(df.rows[r][col])
            /\ col \in Range(out.numerical_cols)
                  <=> \E r \in 1..Len(df.rows) : ~CellFailsCoercion(df.rows[r][col])

\* A column of words with one stray number was classified Numeric.
C2_Witness ==
    /\ pc = "classified"
    /\ \E col \in Range(out.numerical_cols) :
          /\ \E r \in 1..Len(df.rows) : df.rows[r][col] = Str("x")
          /\ Cardinality({r \in 1..Len(df.rows) : ~CellFailsCoercion(df.rows[r][col])}) = 1

ControlNames == <<"C1", "C2", "C3", "C4", "C5", "C6", "C7", "C8">>

TreatmentNames == <<"T1", "T2", "T3", "T4", "T5", "T6", "T7", "T8">>

\* C3: auto_annotate_columns annotates each of the N columns once: the first
\* floor(N/2) are Control named C1.. in order, the other N - floor(N/2) are
\* Treatment named T1.. in order, with no duplicate display name; Control has
\* the smaller half when N is odd.
C3_MidpointSplit ==
    pc = "annotated" =>
        LET cols == out.numerical_cols
            N == Len(cols)
            half == N \div 2
            a == out.annotations
        IN  /\ DOMAIN a = Range(cols)
            /\ \A i \in 1..N :
                  a[cols[i]] = IF i <= half
                               THEN [condition |-> "Control", renamed |-> ControlNames[i]]
                               ELSE [condition |-> "Treatment",
                                     renamed |-> TreatmentNames[i - half]]
            /\ CountCondition(a, "Control") = half
            /\ CountCondition(a, "Treatment") = N - half
            /\ Cardinality({a[col].renamed : col \in DOMAIN a}) = N
            /\ CountCondition(a, "Control") <= CountCondition(a, "Treatment")

\* Three numeric columns were annotated: C1, T1, T2.
C3_Witness ==
    /\ pc = "annotated"
    /\ Len(out.numerical_cols) = 3
    /\ out.annotations[out.numerical_cols[1]].renamed = "C1"
    /\ out.annotations[out.numerical_cols[3]].renamed = "T2"

\* C4: over any sequence of script runs, a column that has an annotation keeps
\* it, condition and display name, unless the user edits that column in the
\* run; the default policy runs only when no column has an annotation.
C4_OverridesKept ==
    [][/\ \A col \in DOMAIN column_annotations :
             /\ col \in DOMAIN column_annotations'
             /\ column_annotations'[col] # column_annotations[col] => run'.edited = col
       /\ run'.auto_annotated => DOMAIN column_annotations = {}]_vars

\* A display name typed by the user is still there after a later upload.
C4_Witness ==
    /\ run.event = "upload"
    /\ run.classified
    /\ run.qc.ran
    /\ \E col \in Range(run.qc.numerical_cols) : column_annotations[col].renamed = "X"

\* C5: after a second matrix is loaded, the annotation map holds nothing of
\* the previous matrix and is the default midpoint split of the new matrix's
\* numeric columns.
C5_ClearedOnNewMatrix ==
    run.replaced =>
        column_annotations
            = auto_annotate_columns(detect_column_types(uploaded_data).numerical_cols)

\* A cell that is neither missing nor the value 0 or 1.
ValidValue(cell) == ~isna(cell) /\ to_numeric(cell) \notin {Num(0), Num(1)}

ValidCount(frame, r, cols) ==
    Cardinality({i \in 1..Len(cols) : ValidValue(frame.rows[r][cols[i]])})

\* C6: the per-sample valid count, the per-condition CV and the PCA input
\* treat the values 0 and 1 of a numeric column as absent, and no other value.
C6_ZeroOneAreMissing ==
    LET numerical_cols == detect_column_types(df).numerical_cols
    IN  /\ pc = "counted" =>
              \A i \in 1..Len(numerical_cols) :
                  out.counts[i] = Cardinality({r \in 1..Len(df.rows) :
                                                 ValidValue(df.rows[r][numerical_cols[i]])})
        /\ pc = "cv" /\ out.status = "ok" =>
              Len(out.cv_data)
                  = Cardinality({rc \in (1..Len(df.rows)) \X {"Control", "Treatment"} :
                        ValidCount(df, rc[1],
                                   IF rc[2] = "Control" THEN out.control_cols
                                   ELSE out.treatment_cols) > 1})
        /\ pc = "pca" /\ out.pca.status = "ok" =>
              Range(out.pca.index)
                  = {r \in 1..Len(df.rows) :
                        2 * ValidCount(df, r, numerical_cols) >= Len(numerical_cols)}

\* C6 on the numeric columns read_csv parsed to numbers: there the claim holds.
C6_OnParsedColumns ==
    (\A r \in 1..Len(df.rows) : \A col \in Range(df.columns) : df.rows[r][col].k # "str")
        => C6_ZeroOneAreMissing

\* The control values 0, 1, 5, 10 of one feature give one CV entry over two
\* values, with mean 7.5.
C6_Example ==
    /\ pc = "cv"
    /\ Len(df.rows) = 1
    /\ \A v \in {0, 1, 5, 10} : \E col \in Range(df.columns) : df.rows[1][col] = Num(v)
    /\ out.status = "ok"
    /\ Len(out.control_cols) = 4
    /\ out.cv_data = <<[Condition |-> "Control", n |-> 2, mean |-> <<15, 2>>,
                        cv2 |-> CvPercentSquared(<<5, 10>>)]>>

\* C7: in a run whose upload cannot be read, no classification, annotation or
\* QC computation is executed.
C7_NoPipelineOnIngestionError ==
    run.error => ~run.classified /\ ~run.auto_annotated /\ ~run.qc.ran

\* The part of C7 about the stored matrix holds: a failed upload leaves
\* uploaded_data as it was.
C7_NoSubstituteMatrix ==
    [][run'.error => uploaded_data' = uploaded_data]_vars

\* C8: whenever the QC computations run, Control and Treatment each have a
\* column and share none.
C8_BothConditionsNonEmpty ==
    run.qc.ran =>
        /\ run.qc.fig3.status = "ok"
        /\ run.qc.fig3.control_cols # <<>>
        /\ run.qc.fig3.treatment_cols # <<>>
        /\ Range(run.qc.fig3.control_cols) \cap Range(run.qc.fig3.treatment_cols) = {}

\* The mean of the values of feature r that are not missing after cleaning.
FeatureMean(frame, r, numerical_cols) ==
    LET vals == RowValues(clean_intensity_data(frame, numerical_cols), r, numerical_cols)
    IN  MeanOf([i \in 1..Len(vals) |-> vals[i].n])

\* C9: plot_pca drops exactly the features missing in more than half of the
\* samples and fills each remaining missing cell with the mean of the values
\* of the same feature.
C9_PerFeatureMeanImputation ==
    pc = "pca" /\ out.pca.status = "ok" =>
        LET numerical_cols == out.numerical_cols
            df_clean == clean_intensity_data(df, numerical_cols)
            missing(r) == Cardinality({col \in Range(numerical_cols) : isna(df_clean.rows[r][col])})
        IN  /\ Range(out.pca.index)
                  = {r \in 1..Len(df.rows) : ~(2 * missing(r) > Len(numerical_cols))}
            /\ \A i \in 1..Len(out.pca.index) : \A col \in Range(numerical_cols) :
                  isna(df_clean.rows[out.pca.index[i]][col]) =>
                      FracEq(out.pca.data_transposed[col][i],
                             FeatureMean(df, out.pca.index[i], numerical_cols))

\* The part of C9 about the dropped features holds.
C9_DroppedFeatures ==
    pc = "pca" =>
        LET numerical_cols == out.numerical_cols
            df_clean == clean_intensity_data(df, numerical_cols)
            missing(r) == Cardinality({col \in Range(numerical_cols) : isna(df_clean.rows[r][col])})
        IN  Range(out.pca.index)
                = {r \in 1..Len(df.rows) : ~(2 * missing(r) > Len(numerical_cols))}

\* C10: whenever the QC stage runs, the annotation map has an entry, with a
\* condition of Control or Treatment, for exactly the numeric columns of the
\* current matrix.
C10_OneAnnotationPerNumericColumn ==
    run.qc.ran =>
        /\ DOMAIN column_annotations = Range(detect_column_types(uploaded_data).numerical_cols)
        /\ \A col \in DOMAIN column_annotations :
              column_annotations[col].condition \in {"Control", "Treatment"}

\* The part of C10 the QC lookups need holds: every numeric column has an entry.
C10_EveryNumericColumnAnnotated ==
    run.qc.ran =>
        /\ Range(detect_column_types(uploaded_data).numerical_cols) \subseteq DOMAIN column_annotations
        /\ run.qc.fig2.status = "ok"
        /\ run.qc.fig3.status = "ok"

====
